---------------------------- MODULE Spec2Model ----------------------------
(***************************************************************************)
(* Message delivery pipeline of the Discord bot:                           *)
(*   internal/ai/client.go      SuggestMessageBreaks, parseMessageBreaks,  *)
(*                              fallbackMessageBreaks, askGrok             *)
(*   internal/bot/formatting.go sendLongResponse, sendChunkWithDelay,      *)
(*                              showTypingIndicator, calculateTypingDelay, *)
(*                              fallbackChunking, splitLongChunk           *)
(*                                                                         *)
(* Strings are kept run-length encoded: a string is a sequence of runs     *)
(* <<c, n>> (n >= 1 copies of the unit c), adjacent runs having different  *)
(* units, so that two strings are equal exactly when their encodings are.  *)
(* Units: "a", "b" (text bytes), "sp" (a space), "nl" (a newline) and      *)
(* "BRK", one occurrence of the 11-byte delimiter <<<BREAK>>>.             *)
(***************************************************************************)
EXTENDS Integers, Sequences, FiniteSets, TLC

(***************************************************************************)
(* Program constants                                                       *)
(***************************************************************************)
MaxDiscordMessageLength == 2000
\* main: the timeout of shutdownCtx (microseconds)
ShutdownTimeout == 30000000
ShortMessageThreshold == 500
FallbackChunkSize == 800

\* the same limit in the loop of Bot.fallbackChunking
BotFallbackChunkSize == 800
ParseMaxChunkLength == 2000
\* durations are in microseconds
MinMessageDelay == 5000000
MaxMessageDelay == 8000000
TypingSpeed == 50000
TypingSpeedDivisor == 80
TypingRefreshInterval == 8000000
BreakDelimiterLength == 11

(***************************************************************************)
(* Strings                                                                 *)
(***************************************************************************)
Whitespace == {"sp", "nl"}

UnitLen(c) == IF c = "BRK" THEN BreakDelimiterLength ELSE 1

\* len(s)
RECURSIVE StrLen(_)
StrLen(s) == IF s = <<>> THEN 0 ELSE UnitLen(s[1][1]) * s[1][2] + StrLen(Tail(s))

\* s + t
Cat(s, t) ==
    IF s = <<>> THEN t
    ELSE IF t = <<>> THEN s
    ELSE IF s[Len(s)][1] = t[1][1]
         THEN SubSeq(s, 1, Len(s) - 1) \o << <<t[1][1], s[Len(s)][2] + t[1][2]>> >> \o Tail(t)
         ELSE s \o t

\* the string of n copies of the unit c
Rep(c, n) == IF n <= 0 THEN <<>> ELSE << <<c, n>> >>

\* s[:k] for a string without delimiter units
RECURSIVE Take(_, _)
Take(s, k) ==
    IF k <= 0 \/ s = <<>> THEN <<>>
    ELSE IF s[1][2] >= k THEN << <<s[1][1], k>> >>
    ELSE <<s[1]>> \o Take(Tail(s), k - s[1][2])

\* s[k:] for a string without delimiter units
RECURSIVE Drop(_, _)
Drop(s, k) ==
    IF k <= 0 \/ s = <<>> THEN s
    ELSE IF s[1][2] > k THEN << <<s[1][1], s[1][2] - k>> >> \o Tail(s)
    ELSE Drop(Tail(s), k - s[1][2])

\* s[lo:hi]
Slice(s, lo, hi) == Take(Drop(s, lo), hi - lo)

RECURSIVE TrimLeft(_)
TrimLeft(s) == IF s # <<>> /\ s[1][1] \in Whitespace THEN TrimLeft(Tail(s)) ELSE s

RECURSIVE TrimRight(_)
TrimRight(s) ==
    IF s # <<>> /\ s[Len(s)][1] \in Whitespace
    THEN TrimRight(SubSeq(s, 1, Len(s) - 1))
    ELSE s

\* strings.TrimSpace
TrimSpace(s) == TrimRight(TrimLeft(s))

\* strings.Split(s, sep) where sep is `width` copies of the unit c: the matches
\* are found left to right without overlap, so a run of n units holds n \div width
\* separators, the first closing the piece before it, the others enclosing empty
\* pieces, and n % width units are left at the start of the next piece.
RECURSIVE SplitFrom(_, _, _, _)
SplitFrom(s, c, width, cur) ==
    IF s = <<>> THEN <<cur>>
    ELSE IF s[1][1] = c /\ s[1][2] >= width
         THEN <<cur>> \o [k \in 1..((s[1][2] \div width) - 1) |-> <<>>]
              \o SplitFrom(Tail(s), c, width, Rep(c, s[1][2] % width))
         ELSE SplitFrom(Tail(s), c, width, Cat(cur, <<s[1]>>))

StringsSplit(s, c, width) == SplitFrom(s, c, width, <<>>)

\* strings.Join(parts, "")
RECURSIVE Concat(_)
Concat(parts) == IF parts = <<>> THEN <<>> ELSE Cat(parts[1], Concat(Tail(parts)))


(***************************************************************************)
(* Segmentation (internal/ai/client.go)                                    *)
(***************************************************************************)
\* mutant: the size test leaves out the two units of the separator
RECURSIVE FallbackLoopNoSeparator(_, _, _)
FallbackLoopNoSeparator(paragraphs, chunks, currentChunk) ==
    IF paragraphs = <<>>
    THEN IF StrLen(currentChunk) > 0
         THEN Append(chunks, TrimSpace(currentChunk))
         ELSE chunks
    ELSE LET para == TrimSpace(paragraphs[1])
             rest == Tail(paragraphs)
         IN  IF para = <<>>
             THEN FallbackLoopNoSeparator(rest, chunks, currentChunk)
             ELSE IF StrLen(currentChunk) > 0
                     /\ StrLen(currentChunk) + StrLen(para) > FallbackChunkSize
                  THEN FallbackLoopNoSeparator(rest, Append(chunks, TrimSpace(currentChunk)), para)
                  ELSE IF StrLen(currentChunk) > 0
                       THEN FallbackLoopNoSeparator(rest, chunks,
                                                    Cat(Cat(currentChunk, Rep("nl", 2)), para))
                       ELSE FallbackLoopNoSeparator(rest, chunks, para)

\* a variant that collects the paragraphs as they are written, trimming
\* only the chunk
RECURSIVE FallbackLoopUntrimmed(_, _, _)
FallbackLoopUntrimmed(paragraphs, chunks, currentChunk) ==
    IF paragraphs = <<>>
    THEN IF StrLen(currentChunk) > 0
         THEN Append(chunks, TrimSpace(currentChunk))
         ELSE chunks
    ELSE LET para == paragraphs[1]
             rest == Tail(paragraphs)
         IN  IF TrimSpace(para) = <<>>
             THEN FallbackLoopUntrimmed(rest, chunks, currentChunk)
             ELSE IF StrLen(currentChunk) > 0
                     /\ StrLen(currentChunk) + StrLen(para) + 2 > FallbackChunkSize
                  THEN FallbackLoopUntrimmed(rest, Append(chunks, TrimSpace(currentChunk)), para)
                  ELSE IF StrLen(currentChunk) > 0
                       THEN FallbackLoopUntrimmed(rest, chunks,
                                                  Cat(Cat(currentChunk, Rep("nl", 2)), para))
                       ELSE FallbackLoopUntrimmed(rest, chunks, para)

\* the paragraph loop of fallbackMessageBreaks
RECURSIVE FallbackLoop(_, _, _)
FallbackLoop(paragraphs, chunks, currentChunk) ==
    IF paragraphs = <<>>
    THEN IF StrLen(currentChunk) > 0
         THEN Append(chunks, TrimSpace(currentChunk))
         ELSE chunks
    ELSE LET para == TrimSpace(paragraphs[1])
             rest == Tail(paragraphs)
         IN  IF para = <<>>
             THEN FallbackLoop(rest, chunks, currentChunk)
             ELSE IF StrLen(currentChunk) > 0
                     /\ StrLen(currentChunk) + StrLen(para) + 2 > FallbackChunkSize
                  THEN FallbackLoop(rest, Append(chunks, TrimSpace(currentChunk)), para)
                  ELSE IF StrLen(currentChunk) > 0
                       THEN FallbackLoop(rest, chunks, Cat(Cat(currentChunk, Rep("nl", 2)), para))
                       ELSE FallbackLoop(rest, chunks, para)

\* mutant: a single chunk is returned as collected, trimmed
fallbackMessageBreaksTrimmed(message) ==
    LET chunks == FallbackLoop(StringsSplit(message, "nl", 2), <<>>, <<>>)
    IN  IF Len(chunks) < 1 THEN <<message>> ELSE chunks

\* AIClient.fallbackMessageBreaks
fallbackMessageBreaks(message) ==
    LET chunks == FallbackLoop(StringsSplit(message, "nl", 2), <<>>, <<>>)
    IN  IF Len(chunks) <= 1 THEN <<message>> ELSE chunks

\* the paragraph loop of fallbackChunking
RECURSIVE ChunkingLoop(_, _, _)
ChunkingLoop(paragraphs, chunks, currentChunk) ==
    IF paragraphs = <<>>
    THEN IF StrLen(currentChunk) > 0
         THEN Append(chunks, TrimSpace(currentChunk))
         ELSE chunks
    ELSE LET para == TrimSpace(paragraphs[1])
             rest == Tail(paragraphs)
         IN  IF para = <<>>
             THEN ChunkingLoop(rest, chunks, currentChunk)
             ELSE IF StrLen(currentChunk) > 0
                     /\ StrLen(currentChunk) + StrLen(para) + 2 > BotFallbackChunkSize
                  THEN ChunkingLoop(rest, Append(chunks, TrimSpace(currentChunk)), para)
                  ELSE IF StrLen(currentChunk) > 0
                       THEN ChunkingLoop(rest, chunks, Cat(Cat(currentChunk, Rep("nl", 2)), para))
                       ELSE ChunkingLoop(rest, chunks, para)

\* Bot.fallbackChunking
fallbackChunking(response) ==
    LET chunks == ChunkingLoop(StringsSplit(response, "nl", 2), <<>>, <<>>)
    IN  IF Len(chunks) <= 1 THEN <<response>> ELSE chunks

\* mutant: a piece of exactly the limit is discarded too
KeepPieceBelowLimit(chunk) == chunk # <<>> /\ StrLen(chunk) < ParseMaxChunkLength

\* the validation test of parseMessageBreaks on a trimmed piece
KeepPiece(chunk) == chunk # <<>> /\ StrLen(chunk) <= ParseMaxChunkLength

RECURSIVE CleanParts(_)
CleanParts(parts) ==
    IF parts = <<>> THEN <<>>
    ELSE LET chunk == TrimSpace(parts[1])
         IN  IF KeepPiece(chunk)
             THEN <<chunk>> \o CleanParts(Tail(parts))
             ELSE CleanParts(Tail(parts))

\* mutant: a single remaining piece is returned as the result
parseMessageBreaksKeepSingle(response, originalMessage) ==
    LET chunks == CleanParts(StringsSplit(response, "BRK", 1))
    IN  IF Len(chunks) < 1 THEN fallbackMessageBreaks(originalMessage) ELSE chunks

\* AIClient.parseMessageBreaks
parseMessageBreaks(response, originalMessage) ==
    LET chunks == CleanParts(StringsSplit(response, "BRK", 1))
    IN  IF Len(chunks) <= 1 THEN fallbackMessageBreaks(originalMessage) ELSE chunks

\* What the xAI endpoint can answer to the one segmentation request.
\*   transport   httpClient.Do fails (connection error, context deadline)
\*   status      a status other than 200
\*   undecodable the body is not a JSON object
\*   noChoices   "choices" is missing, not an array, or empty
\*   badChoice   choices[0] is not an object
\*   badMessage  choices[0].message is missing or not an object
\*   nonString   message.content is not a string
\*   ok          message.content is the string `content`
FailureKinds == {"transport", "status", "undecodable", "noChoices",
                 "badChoice", "badMessage", "nonString"}

\* AIClient.askGrok: the result, or a run-time panic of the unchecked type
\* assertions on choices[0] and on its "message" element
askGrok(xaiAPIKey, outcome) ==
    IF ~xaiAPIKey
    THEN [err |-> "validation", content |-> <<>>, panic |-> FALSE, called |-> FALSE]
    ELSE IF outcome.kind \in {"transport", "status", "undecodable", "noChoices"}
    THEN [err |-> outcome.kind, content |-> <<>>, panic |-> FALSE, called |-> TRUE]
    ELSE IF outcome.kind \in {"badChoice", "badMessage"}
    THEN [err |-> "none", content |-> <<>>, panic |-> TRUE, called |-> TRUE]
    ELSE IF outcome.kind = "nonString"
    THEN [err |-> "format", content |-> <<>>, panic |-> FALSE, called |-> TRUE]
    ELSE [err |-> "none", content |-> outcome.content, panic |-> FALSE, called |-> TRUE]

\* what a provider operation made of the network, in order
NetworkOf(r) == IF r.called THEN <<"request">> ELSE <<>>

\* AIClient.askOpenAI: the go-openai client decodes the response itself
askOpenAI(outcome) ==
    IF outcome.kind = "ok"
    THEN [err |-> "none", content |-> outcome.content, panic |-> FALSE, network |-> <<"request">>]
    ELSE [err |-> outcome.kind, content |-> <<>>, panic |-> FALSE, network |-> <<"request">>]

\* AIClient.AskClient
AskClient(openaiKey, xaiKey, provider, outcome) ==
    IF provider = "openai"
    THEN IF ~openaiKey
         THEN [err |-> "validation", content |-> <<>>, panic |-> FALSE, network |-> <<>>]
         ELSE askOpenAI(outcome)
    ELSE LET r == askGrok(xaiKey, outcome)
         IN  [err |-> r.err, content |-> r.content, panic |-> r.panic, network |-> NetworkOf(r)]

\* AIClient.downloadAndEncodeImage: the request cannot be made of the URL, or
\* it is sent and fails, is answered with another status than 200, has a
\* body that cannot be read, or gives the image
DownloadKinds == {"ok", "badURL", "transport", "status", "unreadable"}

downloadAndEncodeImage(download) ==
    [err |-> IF download = "ok" THEN "none" ELSE "download",
     network |-> IF download = "badURL" THEN <<>> ELSE <<"download">>]

\* the rest of ImageOpinionOpenAI and ImageOpinionGrok once the image is
\* there: the request and the reading of its answer, with unchecked type
\* assertions on choices[0] and its "message" element; a request without a
\* key in its Authorization header is answered with an error status
VisionRequest(key, outcome, made) ==
    LET network == Append(made, "request")
    IN  IF ~key /\ outcome.kind = "ok"
        THEN [err |-> "status", content |-> <<>>, panic |-> FALSE, network |-> network]
        ELSE IF outcome.kind \in {"transport", "status", "undecodable", "noChoices"}
        THEN [err |-> outcome.kind, content |-> <<>>, panic |-> FALSE, network |-> network]
        ELSE IF outcome.kind \in {"badChoice", "badMessage"}
        THEN [err |-> "none", content |-> <<>>, panic |-> TRUE, network |-> network]
        ELSE IF outcome.kind = "nonString"
        THEN [err |-> "format", content |-> <<>>, panic |-> FALSE, network |-> network]
        ELSE [err |-> "none", content |-> outcome.content, panic |-> FALSE, network |-> network]

\* AIClient.ImageOpinionOpenAI: openaiAPIKey is only put into the header
ImageOpinionOpenAI(openaiKey, download, outcome) ==
    LET image == downloadAndEncodeImage(download)
    IN  IF image.err # "none"
        THEN [err |-> image.err, content |-> <<>>, panic |-> FALSE, network |-> image.network]
        ELSE VisionRequest(openaiKey, outcome, image.network)

\* AIClient.ImageOpinionGrok
ImageOpinionGrok(xaiKey, download, outcome) ==
    IF ~xaiKey
    THEN [err |-> "validation", content |-> <<>>, panic |-> FALSE, network |-> <<>>]
    ELSE LET image == downloadAndEncodeImage(download)
         IN  IF image.err # "none"
             THEN [err |-> image.err, content |-> <<>>, panic |-> FALSE, network |-> image.network]
             ELSE VisionRequest(xaiKey, outcome, image.network)

\* mutant: a message of exactly the threshold is not short
IsShortBelowThreshold(message) == StrLen(message) < ShortMessageThreshold

\* the short-reply test of SuggestMessageBreaks
IsShort(message) == StrLen(message) <= ShortMessageThreshold

\* a variant whose request is sent whether or not the xAI key is set
SuggestMessageBreaksAnyKey(xaiAPIKey, message, outcome) ==
    IF IsShort(message)
    THEN [chunks |-> <<message>>, err |-> FALSE, panic |-> FALSE, called |-> FALSE]
    ELSE LET r == askGrok(TRUE, outcome)
         IN  IF r.panic
             THEN [chunks |-> <<>>, err |-> FALSE, panic |-> TRUE, called |-> r.called]
             ELSE IF r.err # "none"
             THEN [chunks |-> fallbackMessageBreaks(message), err |-> FALSE,
                   panic |-> FALSE, called |-> r.called]
             ELSE [chunks |-> parseMessageBreaks(r.content, message), err |-> FALSE,
                   panic |-> FALSE, called |-> r.called]

\* AIClient.SuggestMessageBreaks; its error result is always nil
SuggestMessageBreaks(xaiAPIKey, message, outcome) ==
    IF IsShort(message)
    THEN [chunks |-> <<message>>, err |-> FALSE, panic |-> FALSE, called |-> FALSE]
    ELSE LET r == askGrok(xaiAPIKey, outcome)
         IN  IF r.panic
             THEN [chunks |-> <<>>, err |-> FALSE, panic |-> TRUE, called |-> r.called]
             ELSE IF r.err # "none"
             THEN [chunks |-> fallbackMessageBreaks(message), err |-> FALSE,
                   panic |-> FALSE, called |-> r.called]
             ELSE [chunks |-> parseMessageBreaks(r.content, message), err |-> FALSE,
                   panic |-> FALSE, called |-> r.called]

(***************************************************************************)
(* Length enforcement and pacing (internal/bot/formatting.go)              *)
(***************************************************************************)
\* Bot.splitLongChunk
RECURSIVE SplitLoop(_, _)
SplitLoop(chunk, i) ==
    IF i < StrLen(chunk)
    THEN LET end == IF i + MaxDiscordMessageLength < StrLen(chunk)
                    THEN i + MaxDiscordMessageLength ELSE StrLen(chunk)
         IN  <<Slice(chunk, i, end)>> \o SplitLoop(chunk, i + MaxDiscordMessageLength)
    ELSE <<>>

\* mutant: each slice is put in front of the slices collected so far
RECURSIVE SplitLoopPrepend(_, _)
SplitLoopPrepend(chunk, i) ==
    IF i < StrLen(chunk)
    THEN SplitLoopPrepend(chunk, i + MaxDiscordMessageLength)
         \o <<Slice(chunk, i, IF i + MaxDiscordMessageLength < StrLen(chunk)
                              THEN i + MaxDiscordMessageLength ELSE StrLen(chunk))>>
    ELSE <<>>

splitLongChunkPrepend(chunk) == SplitLoopPrepend(chunk, 0)

\* mutant: the loop stops before a last slice that is not full
RECURSIVE SplitLoopDropTail(_, _)
SplitLoopDropTail(chunk, i) ==
    IF i + MaxDiscordMessageLength <= StrLen(chunk)
    THEN <<Slice(chunk, i, i + MaxDiscordMessageLength)>>
         \o SplitLoopDropTail(chunk, i + MaxDiscordMessageLength)
    ELSE <<>>

splitLongChunkDropTail(chunk) == SplitLoopDropTail(chunk, 0)

splitLongChunk(chunk) == SplitLoop(chunk, 0)

\* mutant: the limit test is off by one
TooLongOffByOne(chunk) == StrLen(chunk) > MaxDiscordMessageLength + 1

\* mutant: every chunk is sent through splitLongChunk
TooLongAlways(chunk) == StrLen(chunk) >= 0

\* the test of sendLongResponse that sends a chunk through splitLongChunk
TooLong(chunk) == StrLen(chunk) > MaxDiscordMessageLength

\* the messages the loop of sendLongResponse makes of a chunk list
RECURSIVE EnforceLength(_)
EnforceLength(list) ==
    IF list = <<>> THEN <<>>
    ELSE (IF TooLong(list[1]) THEN splitLongChunk(list[1]) ELSE <<list[1]>>)
         \o EnforceLength(Tail(list))

\* mutant: the slices of an oversized chunk get the delay flag of their chunk
AddDelayOfChunk(i, j) == i > 1

\* the addDelay argument sendLongResponse passes for slice j of chunk i
\* (both counted from 1 here, from 0 in the source)
AddDelay(i, j) == i > 1 \/ j > 1

\* a variant that takes TypingSpeed for every byte
calculateTypingDelayPerByte(chunk) ==
    LET typingTime == StrLen(chunk) * TypingSpeed
        delay == MinMessageDelay + typingTime
    IN  IF delay > MaxMessageDelay THEN MaxMessageDelay ELSE delay

\* Bot.calculateTypingDelay
calculateTypingDelay(chunk) ==
    LET typingTime == (StrLen(chunk) * TypingSpeed) \div TypingSpeedDivisor
        delay == MinMessageDelay + typingTime
    IN  IF delay > MaxMessageDelay THEN MaxMessageDelay ELSE delay


(***************************************************************************)
(* Bounds and inputs                                                       *)
(***************************************************************************)
\* command handlers that may run sendLongResponse concurrently
NumDeliveries == 2
\* a Reply is made of at most MaxParas of the Paragraphs
MaxParas == 2
\* a gateway call of a typing task returns within MaxLatency (microseconds)
MaxLatency == 2000000

\* the time from which every pending step is served
Horizon == 60000000

Deliveries == 1..NumDeliveries

RECURSIVE SeqsUpTo(_, _)
SeqsUpTo(S, n) ==
    IF n = 0 THEN {<<>>}
    ELSE LET shorter == SeqsUpTo(S, n - 1)
         IN  shorter \cup {Append(q, x) : q \in shorter, x \in S}

\* strings.Join(parts, sep)
RECURSIVE Join(_, _)
Join(parts, sep) ==
    IF Len(parts) = 0 THEN <<>>
    ELSE IF Len(parts) = 1 THEN parts[1]
    ELSE Cat(Cat(parts[1], sep), Join(Tail(parts), sep))

Paragraphs ==
    {<<>>, <<<<"nl", 1>>, <<"a", 1>>>>, Rep("a", 500), <<<<"sp", 1>>, <<"a", 500>>>>,
     Rep("a", 2001)}

\* the replies of a single delivery: paragraphs joined by blank lines
Replies == {Join(q, Rep("nl", 2)) : q \in SeqsUpTo(Paragraphs, MaxParas)}

\* the replies of deliveries that run side by side
ConcurrentReplies == {Rep("a", 1), <<<<"a", 2000>>, <<"b", 2000>>>>}

\* the replies of a delivery whose typing tasks are served at any time: of
\* one message and of three
UntimelyReplies == {Rep("a", 1), <<<<"a", 2000>>, <<"b", 2000>>, <<"a", 1>>>>}

\* the contents the provider may answer with: nothing, no delimiter, two clean
\* pieces, pieces to trim and an empty one, an oversized piece among three,
\* and a single usable piece among three
Responses ==
    {<<>>,
     Rep("b", 1),
     <<<<"b", 1>>, <<"BRK", 1>>, <<"b", 2000>>>>,
     <<<<"sp", 1>>, <<"b", 2000>>, <<"nl", 1>>, <<"BRK", 2>>, <<"b", 1>>, <<"BRK", 1>>>>,
     <<<<"b", 2001>>, <<"BRK", 1>>, <<"b", 2>>, <<"BRK", 1>>, <<"sp", 1>>, <<"b", 1>>>>,
     <<<<"b", 2001>>, <<"BRK", 1>>, <<"sp", 2>>, <<"BRK", 1>>, <<"b", 1>>>>}

\* a chunk list handed to the loop of sendLongResponse has at most MaxChunks chunks
MaxChunks == 2

\* chunks of length 0, 1, 2000, 2000, 2001, 4000, 4001 and 4001
EnforceChunks ==
    {<<>>,
     Rep("a", 1),
     Rep("a", 2000),
     <<<<"a", 1999>>, <<"b", 1>>>>,
     <<<<"a", 2000>>, <<"b", 1>>>>,
     <<<<"a", 2000>>, <<"b", 2000>>>>,
     <<<<"a", 2000>>, <<"b", 2000>>, <<"a", 1>>>>,
     <<<<"a", 1>>, <<"b", 4000>>>>}

ChunkLists == SeqsUpTo(EnforceChunks, MaxChunks)

\* texts without a blank line
PlainTexts ==
    {<<>>,
     Rep("sp", 1),
     Rep("nl", 1),
     Rep("a", 1),
     <<<<"sp", 1>>, <<"a", 1>>, <<"sp", 1>>>>,
     <<<<"a", 1>>, <<"nl", 1>>, <<"a", 1>>>>,
     <<<<"nl", 1>>, <<"a", 801>>>>,
     Rep("a", 2001),
     <<<<"a", 1>>, <<"sp", 2>>, <<"nl", 1>>>>}

\* paragraphs written with the unit c: short, around half the soft target,
\* long, padded with whitespace, and blank
ParagraphsOf(c) ==
    {Rep(c, 1),
     Rep(c, 399),
     Rep(c, 401),
     Rep(c, 1599),
     <<<<"sp", 1000>>, <<c, 1>>>>,
     <<<<"sp", 1>>, <<c, 800>>, <<"nl", 1>>>>,
     Rep("sp", 1)}

\* the paragraphs of a text of three paragraphs
Triples == ParagraphsOf("a") \X ParagraphsOf("b") \X ParagraphsOf("a")

ThreeParagraphs(t) == Join(<<t[1], t[2], t[3]>>, Rep("nl", 2))

\* texts whose paragraphs are more than one blank line apart, a text with a
\* short padded paragraph in the middle, and a text of four paragraphs
GapTexts ==
    {<<<<"a", 500>>, <<"nl", 3>>, <<"b", 500>>>>,
     <<<<"a", 1>>, <<"nl", 3>>, <<"sp", 1>>, <<"b", 1>>, <<"sp", 1>>, <<"nl", 2>>, <<"a", 1599>>>>,
     <<<<"a", 500>>, <<"nl", 4>>, <<"b", 500>>>>,
     <<<<"a", 500>>, <<"nl", 5>>, <<"b", 500>>, <<"nl", 2>>>>,
     Join(<<Rep("a", 399), Rep("b", 399), Rep("a", 1), Rep("b", 1)>>, Rep("nl", 2))}

FallbackTexts == PlainTexts \cup {ThreeParagraphs(t) : t \in Triples} \cup GapTexts

\* the provider contents and the replies parseMessageBreaks is applied to
ParseResponses ==
    Responses \cup {<<<<"a", 1>>, <<"BRK", 1>>, <<"b", 1>>, <<"BRK", 1>>>>,
                    <<<<"BRK", 1>>, <<"b", 2000>>, <<"BRK", 1>>, <<"sp", 1>>>>}

ParseOriginals ==
    {<<>>, Rep("a", 1), <<<<"a", 500>>, <<"nl", 2>>, <<"a", 500>>>>}

ParseInputs == [response : ParseResponses, originalMessage : ParseOriginals]

\* the replies a provider may give to a command
HandlerReplies ==
    {Rep("a", 1), <<<<"a", 2000>>, <<"b", 1>>>>, <<<<"a", 500>>, <<"nl", 2>>, <<"b", 500>>>>}

\* what a provider may answer to the request of a command
ReplyOutcomes ==
    [kind : FailureKinds, content : {<<>>}] \cup [kind : {"ok"}, content : HandlerReplies]

(***************************************************************************)
(* Provider selection (formatting.go, extractProviderAndArgs).  A command  *)
(* argument is a word, a sequence of letters; strings.ToLower replaces     *)
(* every upper-case letter of a word by its lower-case letter.             *)
(***************************************************************************)
\* the upper-case letters of the words used here, each with its lower-case letter
CasePairs ==
    {<<"G", "g">>, <<"R", "r">>, <<"O", "o">>, <<"K", "k">>, <<"P", "p">>,
     <<"E", "e">>, <<"N", "n">>, <<"A", "a">>, <<"I", "i">>}

LowerLetter(c) ==
    IF \E p \in CasePairs : p[1] = c
    THEN (CHOOSE p \in CasePairs : p[1] = c)[2]
    ELSE c

ToLower(w) == [k \in 1..Len(w) |-> LowerLetter(w[k])]

ProviderGrok == <<"g", "r", "o", "k">>

ProviderOpenAI == <<"o", "p", "e", "n", "a", "i">>

\* a variant that compares the first argument as it is written
extractProviderAndArgsCaseSensitive(args, defaultProvider) ==
    IF Len(args) > 0 /\ args[1] \in {ProviderGrok, ProviderOpenAI}
    THEN [provider |-> args[1], args |-> Tail(args)]
    ELSE [provider |-> defaultProvider, args |-> args]

extractProviderAndArgs(args, defaultProvider) ==
    IF Len(args) > 0 /\ ToLower(args[1]) \in {ProviderGrok, ProviderOpenAI}
    THEN [provider |-> ToLower(args[1]), args |-> Tail(args)]
    ELSE [provider |-> defaultProvider, args |-> args]

\* the words of a command line: the provider words in several spellings,
\* a prefix of one, another word and the empty word
ArgWords ==
    {ProviderGrok, <<"G", "R", "O", "K">>, <<"G", "r", "o", "k">>,
     ProviderOpenAI, <<"O", "p", "e", "n", "A", "I">>,
     <<"g", "r", "o">>, <<"a", "s", "k">>, <<>>}

MaxArgs == 2

ExtractInputs ==
    [args : SeqsUpTo(ArgWords, MaxArgs), defaultProvider : {ProviderGrok, ProviderOpenAI}]

(***************************************************************************)
(* Configuration (config.go).  A value of the environment is the empty    *)
(* string, a blank or a word.                                              *)
(***************************************************************************)
ConfigValues == {"", " ", "x"}

Configs ==
    [DiscordToken : ConfigValues, DiscordPoliticsChannel : ConfigValues,
     XAIAPIKey : ConfigValues, OpenAIAPIKey : ConfigValues]

\* a variant that asks for both API keys
ValidateBothKeys(c) ==
    [err |-> IF c.DiscordToken = "" THEN "DISCORD_TOKEN"
             ELSE IF c.XAIAPIKey = "" \/ c.OpenAIAPIKey = ""
             THEN "XAI_API_KEY or OPENAI_API_KEY"
             ELSE IF c.DiscordPoliticsChannel = "" THEN "DISCORD_POLITICS_CHANNEL"
             ELSE "nil",
     config |-> c]

\* Config.Validate: the Field of the ConfigError it returns, or "nil", and
\* the Config after the call
Validate(c) ==
    [err |-> IF c.DiscordToken = "" THEN "DISCORD_TOKEN"
             ELSE IF c.XAIAPIKey = "" /\ c.OpenAIAPIKey = ""
             THEN "XAI_API_KEY or OPENAI_API_KEY"
             ELSE IF c.DiscordPoliticsChannel = "" THEN "DISCORD_POLITICS_CHANNEL"
             ELSE "nil",
     config |-> c]

(***************************************************************************)
(* Most active users (getTopActiveUsers).  userCounts is a map from user  *)
(* names to message counts; the order in which a Go map is ranged over is  *)
(* not fixed, so the function is applied to any order of the entries.      *)
(***************************************************************************)
UserNames == {"alice", "bob", "carol"}

MaxCount == 2

MaxTopN == 4

UserCountMaps == UNION {[names -> 0..MaxCount] : names \in SUBSET UserNames}

TopInputs == [userCounts : UserCountMaps, topN : (0 - 1)..MaxTopN]

\* the slices the range loop over a map can build
RangeOrders(userCounts) ==
    LET n == Cardinality(DOMAIN userCounts)
        orders == {s \in [1..n -> DOMAIN userCounts] :
                      \A a, b \in 1..n : s[a] = s[b] => a = b}
    IN  {[k \in 1..n |-> [name |-> s[k], count |-> userCounts[s[k]]]] : s \in orders}

Swap(counts, a, b) == [counts EXCEPT ![a] = counts[b], ![b] = counts[a]]

\* a variant of the loop that exchanges when the later count is smaller
RECURSIVE SortLoopAscending(_, _, _)
SortLoopAscending(counts, a, b) ==
    IF a > Len(counts) THEN counts
    ELSE IF b > Len(counts) THEN SortLoopAscending(counts, a + 1, a + 2)
    ELSE SortLoopAscending(IF counts[b].count < counts[a].count
                           THEN Swap(counts, a, b) ELSE counts, a, b + 1)

\* the two nested loops of getTopActiveUsers, at the indices a < b (from 1)
RECURSIVE SortLoop(_, _, _)
SortLoop(counts, a, b) ==
    IF a > Len(counts) THEN counts
    ELSE IF b > Len(counts) THEN SortLoop(counts, a + 1, a + 2)
    ELSE SortLoop(IF counts[b].count > counts[a].count
                  THEN Swap(counts, a, b) ELSE counts, a, b + 1)

\* getTopActiveUsers, counts being the slice its range loop has built
getTopActiveUsers(counts, topN) ==
    LET sorted == SortLoop(counts, 1, 2)
        n == IF topN < Len(sorted) THEN topN ELSE Len(sorted)
    IN  [k \in 1..n |-> sorted[k].name]

\* the provider argument of AskClient: anything but "openai" is sent to Grok
Providers == {"openai", "grok", "other"}

AskInputs == [provider : Providers, outcome : ReplyOutcomes]

ImageInputs == [download : DownloadKinds, outcome : ReplyOutcomes]

Outcomes == [kind : FailureKinds, content : {<<>>}] \cup [kind : {"ok"}, content : Responses]

NoOutcome == [kind |-> "none", content |-> <<>>]

\* no command has been received
NoHandler ==
    [command |-> "none", token |-> "none", provider |-> "none", stage |-> "idle",
     failed |-> FALSE]

NoPacing == [delay |-> 0, typing |-> FALSE, begun |-> 0]

(***************************************************************************)
(* State                                                                   *)
(***************************************************************************)
VARIABLES
    xaiAPIKey,  \* AIClient.xaiAPIKey is set
    admitted,   \* the deliveries that may be started
    now,        \* the clock
    pc,         \* where each sendLongResponse invocation stands
    reply,      \* its response argument
    outcome,    \* what the provider answered to its segmentation request
    called,     \* whether it made a provider request
    chunks,     \* its chunks
    i,          \* index of the chunk in hand (from 1)
    j,          \* index of the slice in hand within an oversized chunk (from 1)
    pacing,     \* sendChunkWithDelay in progress: delay slept, typing task started, entry time
    wakeAt,     \* when its time.Sleep returns
    tasks,      \* its showTypingIndicator goroutines
    sends,      \* per delivery, the ChannelMessageSend calls it has made, in order
    returned,   \* per delivery, how many of its ChannelMessageSend calls have returned
    sendFailed, \* whether a ChannelMessageSend call has returned an error
    typingFailed, \* whether a ChannelTyping call has returned an error
    lateTyping, \* whether a ChannelTyping call was issued for a message whose
                \* delay had already elapsed
    cancelled,  \* per delivery, whether the ctx given to sendLongResponse is cancelled
    cancelIgnored, \* whether time has passed while a delivery with a cancelled ctx
                \* was in its pacing sleep or had a typing task in its select
    shutdown,   \* where main stands: running, signalled, closed, exited
    signalledAt, \* when the termination signal was received
    fn,         \* the function a caller applies on its own
    arg,        \* its argument
    res,        \* its result
    openaiAPIKey, \* AIClient.openaiAPIKey is set (and so is AIClient.openaiClient)
    handler,    \* per delivery, the command handler that is to call sendLongResponse
    notices,    \* per delivery, the messages its handler has sent itself, by kind
    timely      \* whether a goroutine starts at once and a ChannelTyping call
                \* returns within MaxLatency

\* what the steps of a delivery leave alone
others == <<cancelled, cancelIgnored, shutdown, signalledAt, fn, arg, res, openaiAPIKey, handler, notices, timely>>

\* the state of the deliveries, of cancellation and of shutdown
delivery == <<xaiAPIKey, admitted, now, pc, reply, outcome, called, chunks, i, j,
              pacing, wakeAt, tasks, sends, returned, sendFailed, typingFailed, lateTyping,
              cancelled, cancelIgnored, shutdown, signalledAt>>

vars == <<xaiAPIKey, admitted, now, pc, reply, outcome, called, chunks, i, j,
          pacing, wakeAt, tasks, sends, returned, sendFailed, typingFailed, lateTyping,
          cancelled, cancelIgnored, shutdown, signalledAt, fn, arg, res, openaiAPIKey, handler, notices, timely>>

\* the message sendLongResponse has in hand
CurrentMessage(d) ==
    IF TooLong(chunks[d][i[d]]) THEN splitLongChunk(chunks[d][i[d]])[j[d]] ELSE chunks[d][i[d]]

\* the sends of delivery d, in the order the gateway received them
SentBy(d) == sends[d]

Messages(log) == [k \in 1..Len(log) |-> log[k].msg]

InitCommon ==
    /\ now = 0
    /\ pc = [d \in Deliveries |-> "idle"]
    /\ reply = [d \in Deliveries |-> <<>>]
    /\ outcome = [d \in Deliveries |-> NoOutcome]
    /\ called = [d \in Deliveries |-> FALSE]
    /\ chunks = [d \in Deliveries |-> <<>>]
    /\ i = [d \in Deliveries |-> 1]
    /\ j = [d \in Deliveries |-> 1]
    /\ pacing = [d \in Deliveries |-> NoPacing]
    /\ wakeAt = [d \in Deliveries |-> 0]
    /\ tasks = [d \in Deliveries |-> <<>>]
    /\ sends = [d \in Deliveries |-> <<>>]
    /\ returned = [d \in Deliveries |-> 0]
    /\ sendFailed = FALSE
    /\ typingFailed = FALSE
    /\ lateTyping = FALSE
    /\ cancelled = [d \in Deliveries |-> FALSE]
    /\ cancelIgnored = FALSE
    /\ shutdown = "running"
    /\ signalledAt = 0
    /\ handler = [d \in Deliveries |-> NoHandler]
    /\ notices = [d \in Deliveries |-> <<>>]

\* a function that has not returned, and one that has returned value
Pending == [done |-> FALSE, value |-> <<>>]

Done(value) == [done |-> TRUE, value |-> value]

\* no function is applied on its own
NoCall == fn = "none" /\ arg = <<>> /\ res = Pending

\* one command handler delivers one reply
Init == InitCommon /\ timely = TRUE /\ NoCall /\ xaiAPIKey \in BOOLEAN /\ openaiAPIKey = FALSE /\ admitted = {1}

\* every command handler delivers a reply, side by side, in a deployment
\* without an xAI key
InitConcurrent ==
    InitCommon /\ timely = TRUE /\ NoCall /\ xaiAPIKey = FALSE /\ openaiAPIKey = FALSE /\ admitted = Deliveries

(***************************************************************************)
(* sendLongResponse                                                        *)
(***************************************************************************)
\* a command handler hands its reply to sendLongResponse
Start(d) ==
    /\ pc[d] = "idle"
    /\ d \in admitted
    /\ \E r \in (IF ~timely THEN UntimelyReplies
                 ELSE IF Cardinality(admitted) = 1 THEN Replies ELSE ConcurrentReplies) :
          reply' = [reply EXCEPT ![d] = r]
    /\ pc' = [pc EXCEPT ![d] = "start"]
    /\ UNCHANGED <<others, xaiAPIKey, admitted, now, outcome, called, chunks, i, j, pacing,
                   wakeAt, tasks, sends, returned, sendFailed, typingFailed, lateTyping>>

\* the call of SuggestMessageBreaks and the fallback of sendLongResponse on its error
Segment(d) ==
    /\ pc[d] = "start"
    /\ \E o \in Outcomes :
       \E r \in {SuggestMessageBreaks(xaiAPIKey, reply[d], o)} :
              /\ outcome' = [outcome EXCEPT ![d] = IF r.called THEN o ELSE NoOutcome]
              /\ called' = [called EXCEPT ![d] = r.called]
              /\ IF r.panic
                 THEN /\ pc' = [pc EXCEPT ![d] = "panicked"]
                      /\ UNCHANGED chunks
                 ELSE /\ pc' = [pc EXCEPT ![d] = "loop"]
                      /\ chunks' = [chunks EXCEPT ![d] =
                                       IF r.err THEN fallbackChunking(reply[d]) ELSE r.chunks]
    /\ i' = [i EXCEPT ![d] = 1]
    /\ j' = [j EXCEPT ![d] = 1]
    /\ UNCHANGED <<others, xaiAPIKey, admitted, now, reply, pacing, wakeAt, tasks, sends, returned, sendFailed, typingFailed, lateTyping>>

\* the time by which a step of a typing task that the scheduler or the
\* gateway is to serve is taken: within the latency, or with no bound short
\* of the horizon
Due(latency) == IF timely THEN now + latency ELSE Horizon

\* a typing task: the number k of the message it belongs to, where it stands,
\* its duration argument, its timers, the time `by` which its pending step is
\* taken, and whether a typing call of it has failed
NewTask(k, delay) ==
    [k |-> k, phase |-> "spawned", dur |-> delay, tickerAt |-> 0, timeoutAt |-> 0,
     by |-> Due(0), failed |-> FALSE]

\* sendChunkWithDelay up to its time.Sleep: with addDelay the delay is computed,
\* the typing goroutine is started and the sleep begins
BeginChunk(d) ==
    /\ pc[d] = "loop"
    /\ i[d] <= Len(chunks[d])
    /\ IF AddDelay(i[d], j[d])
       THEN LET delay == calculateTypingDelay(CurrentMessage(d))
            IN  /\ tasks' = [tasks EXCEPT ![d] = Append(@, NewTask(returned[d] + 1, delay))]
                /\ wakeAt' = [wakeAt EXCEPT ![d] = now + delay]
                /\ pacing' = [pacing EXCEPT ![d] =
                                 [delay |-> delay, typing |-> TRUE, begun |-> now]]
                /\ pc' = [pc EXCEPT ![d] = "sleep"]
       ELSE /\ pacing' = [pacing EXCEPT ![d] = [delay |-> 0, typing |-> FALSE, begun |-> now]]
            /\ pc' = [pc EXCEPT ![d] = "send"]
            /\ UNCHANGED <<tasks, wakeAt>>
    /\ UNCHANGED <<others, xaiAPIKey, admitted, now, reply, outcome, called, chunks, i, j,
                   sends, returned, sendFailed, typingFailed, lateTyping>>

\* a variant in which the sleep is over only when the typing tasks of the
\* delivery have started and have no call in flight
SleepOverAndTyped(d) ==
    /\ now >= wakeAt[d]
    /\ \A n \in DOMAIN tasks[d] : tasks[d][n].phase \notin {"spawned", "call1", "callR"}

\* whether time.Sleep(delay) of sendChunkWithDelay returns
SleepOver(d) == now >= wakeAt[d]

\* time.Sleep(delay) returns
Wake(d) ==
    /\ pc[d] = "sleep"
    /\ SleepOver(d)
    /\ pc' = [pc EXCEPT ![d] = "send"]
    /\ UNCHANGED <<others, xaiAPIKey, admitted, now, reply, outcome, called, chunks, i, j,
                   pacing, wakeAt, tasks, sends, returned, sendFailed, typingFailed, lateTyping>>

\* sendChunkWithDelay calls ChannelMessageSend
SendCall(d) ==
    /\ pc[d] = "send"
    /\ sends' = [sends EXCEPT ![d] =
                    Append(@, [msg |-> CurrentMessage(d), delay |-> pacing[d].delay,
                               typing |-> pacing[d].typing, begun |-> pacing[d].begun,
                               at |-> now])]
    /\ pc' = [pc EXCEPT ![d] = "sending"]
    /\ UNCHANGED <<others, xaiAPIKey, admitted, now, reply, outcome, called, chunks, i, j,
                   pacing, wakeAt, tasks, returned, sendFailed, typingFailed, lateTyping>>

\* mutant: a failed send ends the delivery
AfterSendAbort(ok) == IF ok THEN "loop" ELSE "done"

\* where sendLongResponse stands when ChannelMessageSend has returned: the
\* error is logged and the loop goes on
AfterSend(ok) == "loop"

\* ChannelMessageSend returns, an error is logged, and the loops of
\* sendLongResponse step to the next slice or chunk
SendReturn(d) ==
    /\ pc[d] = "sending"
    /\ \E ok \in BOOLEAN :
          /\ sendFailed' = (sendFailed \/ ~ok)
          /\ pc' = [pc EXCEPT ![d] = AfterSend(ok)]
    /\ returned' = [returned EXCEPT ![d] = @ + 1]
    /\ IF TooLong(chunks[d][i[d]]) /\ j[d] < Len(splitLongChunk(chunks[d][i[d]]))
       THEN /\ j' = [j EXCEPT ![d] = @ + 1]
            /\ UNCHANGED i
       ELSE /\ i' = [i EXCEPT ![d] = @ + 1]
            /\ j' = [j EXCEPT ![d] = 1]
    /\ UNCHANGED <<others, xaiAPIKey, admitted, now, reply, outcome, called, chunks,
                   pacing, wakeAt, tasks, sends, typingFailed, lateTyping>>

\* the range loop of sendLongResponse is exhausted
Finish(d) ==
    /\ pc[d] = "loop"
    /\ i[d] > Len(chunks[d])
    /\ pc' = [pc EXCEPT ![d] = "done"]
    /\ UNCHANGED <<others, xaiAPIKey, admitted, now, reply, outcome, called, chunks, i, j,
                   pacing, wakeAt, tasks, sends, returned, sendFailed, typingFailed, lateTyping>>

(***************************************************************************)
(* showTypingIndicator                                                     *)
(***************************************************************************)
\* whether delivery d is past the sleep before its message number k
Elapsed(d, k) == returned[d] >= k \/ (returned[d] + 1 = k /\ pc[d] # "sleep")

\* a ChannelTyping call is issued by task t
Issue(t, phase) == [t EXCEPT !.phase = phase, !.by = Due(MaxLatency)]

\* the goroutine starts: the ticker is created and the first ChannelTyping call made
TaskStart(d, n) ==
    /\ n \in DOMAIN tasks[d]
    /\ tasks[d][n].phase = "spawned"
    /\ tasks' = [tasks EXCEPT ![d][n] =
                    [Issue(@, "call1") EXCEPT !.tickerAt = now + TypingRefreshInterval]]
    /\ lateTyping' = (lateTyping \/ Elapsed(d, tasks[d][n].k))
    /\ UNCHANGED <<others, xaiAPIKey, admitted, now, pc, reply, outcome, called, chunks, i, j,
                   pacing, wakeAt, sends, returned, sendFailed, typingFailed>>

\* mutant: the error is logged and the task stays in its loop
AfterTypingErrorGoOn(phase) == "wait"

\* where the task stands when a ChannelTyping call has failed: it returns
AfterTypingError(phase) == "done"

\* a variant in which the task goes back to its select
StaysInLoop(t) == [t EXCEPT !.phase = "wait", !.by = 0]

\* the task returns: its deferred ticker.Stop() runs and nothing of it is left
Returned(t) ==
    [t EXCEPT !.phase = "done", !.tickerAt = 0, !.timeoutAt = 0, !.by = 0, !.failed = FALSE]

\* a ChannelTyping call returns: on an error the task returns, after the first
\* call the timeout timer is created, and the task waits in its select
TypingReturn(d, n) ==
    /\ n \in DOMAIN tasks[d]
    /\ tasks[d][n].phase \in {"call1", "callR"}
    /\ \E ok \in BOOLEAN :
          LET t == tasks[d][n]
              armed == IF t.phase = "call1" /\ ok THEN now + t.dur ELSE t.timeoutAt
          IN  /\ tasks' = [tasks EXCEPT ![d][n] =
                              IF ok
                              THEN [t EXCEPT !.phase = "wait", !.timeoutAt = armed, !.by = 0]
                              ELSE IF AfterTypingError(t.phase) = "done"
                                   THEN Returned(t)
                                   ELSE [t EXCEPT !.phase = AfterTypingError(t.phase),
                                                  !.failed = TRUE, !.by = 0]]
              /\ typingFailed' = (typingFailed \/ ~ok)
    /\ UNCHANGED <<others, xaiAPIKey, admitted, now, pc, reply, outcome, called, chunks, i, j,
                   pacing, wakeAt, sends, returned, sendFailed, lateTyping>>

\* case <-timeout
TaskTimeout(d, n) ==
    /\ n \in DOMAIN tasks[d]
    /\ tasks[d][n].phase = "wait"
    /\ now >= tasks[d][n].timeoutAt
    /\ tasks' = [tasks EXCEPT ![d][n] = Returned(@)]
    /\ UNCHANGED <<others, xaiAPIKey, admitted, now, pc, reply, outcome, called, chunks, i, j,
                   pacing, wakeAt, sends, returned, sendFailed, typingFailed, lateTyping>>

\* case <-ticker.C: the typing indicator is refreshed; the ticker's next tick
\* to be received is the first one after now
TaskTick(d, n) ==
    /\ n \in DOMAIN tasks[d]
    /\ tasks[d][n].phase = "wait"
    /\ now >= tasks[d][n].tickerAt
    /\ LET t == tasks[d][n]
           missed == (now - t.tickerAt) \div TypingRefreshInterval
       IN  tasks' = [tasks EXCEPT ![d][n] =
                        [Issue(t, "callR") EXCEPT
                            !.tickerAt = t.tickerAt + TypingRefreshInterval * (missed + 1)]]
    /\ lateTyping' = (lateTyping \/ Elapsed(d, tasks[d][n].k))
    /\ UNCHANGED <<others, xaiAPIKey, admitted, now, pc, reply, outcome, called, chunks, i, j,
                   pacing, wakeAt, sends, returned, sendFailed, typingFailed>>

(***************************************************************************)
(* Time                                                                    *)
(***************************************************************************)
TaskIds == UNION {{<<d, n>> : n \in DOMAIN tasks[d]} : d \in Deliveries}

TasksIn(phases) == {x \in TaskIds : tasks[x[1]][x[2]].phase \in phases}

\* what is served when its time comes: an expired timer that is waited for,
\* the start of a goroutine, the return of a typing call; the steps of
\* sendLongResponse other than its sleep take no time
Listening ==
    {wakeAt[d] : d \in {e \in Deliveries : pc[e] = "sleep"}}
    \cup {now : d \in {e \in Deliveries : pc[e] \in {"start", "loop", "send", "sending"}}}
    \cup UNION {{tasks[x[1]][x[2]].timeoutAt, tasks[x[1]][x[2]].tickerAt} : x \in TasksIn({"wait"})}
    \cup {tasks[x[1]][x[2]].by : x \in TasksIn({"spawned", "call1", "callR"})}

\* timers that exist while their task is inside a ChannelTyping call
Running ==
    {tasks[x[1]][x[2]].tickerAt : x \in TasksIn({"call1", "callR"})}
    \cup {tasks[x[1]][x[2]].timeoutAt : x \in TasksIn({"callR"})}

\* the clock moves to the next expiry, not past one that is waited for
Pass ==
    \E t \in Listening \cup Running :
        /\ t > now
        /\ \A u \in Listening : t <= u
        /\ now' = t

\* time passes, up to the next expiry that is waited for
Advance ==
    /\ Pass
    /\ UNCHANGED <<others, xaiAPIKey, admitted, pc, reply, outcome, called, chunks, i, j,
                   pacing, wakeAt, tasks, sends, returned, sendFailed, typingFailed, lateTyping>>

\* the steps of the deliveries and of their typing tasks
Steps ==
    \/ \E d \in Deliveries : Start(d)
    \/ \E d \in Deliveries : Segment(d)
    \/ \E d \in Deliveries : BeginChunk(d)
    \/ \E d \in Deliveries : Wake(d)
    \/ \E d \in Deliveries : SendCall(d)
    \/ \E d \in Deliveries : SendReturn(d)
    \/ \E d \in Deliveries : Finish(d)
    \/ \E d \in Deliveries : \E n \in 1..Len(tasks[d]) : TaskStart(d, n)
    \/ \E d \in Deliveries : \E n \in 1..Len(tasks[d]) : TypingReturn(d, n)
    \/ \E d \in Deliveries : \E n \in 1..Len(tasks[d]) : TaskTimeout(d, n)
    \/ \E d \in Deliveries : \E n \in 1..Len(tasks[d]) : TaskTick(d, n)

Next == Steps \/ Advance

Spec == Init /\ [][Next]_vars

SpecConcurrent == InitConcurrent /\ [][Next]_vars

\* The goroutine of a delivery runs when it can, so do the goroutines of its
\* typing tasks, whose ChannelTyping calls return, and time passes, so that
\* timers fire.
Fairness ==
    /\ \A d \in Deliveries :
          WF_vars(Segment(d) \/ BeginChunk(d) \/ Wake(d) \/ SendCall(d) \/ SendReturn(d)
                  \/ Finish(d))
    /\ \A d \in Deliveries :
          WF_vars(\E n \in 1..Len(tasks[d]) :
                     TaskStart(d, n) \/ TypingReturn(d, n) \/ TaskTimeout(d, n) \/ TaskTick(d, n))
    /\ WF_vars(Advance)

SpecFair == Init /\ [][Next]_vars /\ Fairness

\* one delivery in a deployment without an xAI key, the scheduler and the
\* gateway serving the typing tasks whenever they will
InitUntimely ==
    InitCommon /\ timely = FALSE /\ NoCall /\ xaiAPIKey = FALSE /\ openaiAPIKey = FALSE
    /\ admitted = {1}

SpecUntimely == InitUntimely /\ [][Next]_vars

(***************************************************************************)
(* Cancellation and shutdown                                               *)
(***************************************************************************)
\* whether sendLongResponse is between its call and its return
InFlight(d) == pc[d] \in {"start", "loop", "sleep", "send", "sending"}

\* the ctx that sendLongResponse was given is cancelled by its owner;
\* time.Sleep and the select of showTypingIndicator do not look at it
Cancel(d) ==
    /\ shutdown # "exited"
    /\ InFlight(d)
    /\ ~cancelled[d]
    /\ cancelled' = [cancelled EXCEPT ![d] = TRUE]
    /\ UNCHANGED <<xaiAPIKey, admitted, now, pc, reply, outcome, called, chunks, i, j,
                   pacing, wakeAt, tasks, sends, returned, sendFailed, typingFailed,
                   lateTyping, cancelIgnored, shutdown, signalledAt, fn, arg, res, openaiAPIKey, handler, notices, timely>>

\* a delivery whose ctx is cancelled is in time.Sleep, or has a typing task in its select
Stalled ==
    \E d \in Deliveries :
        /\ cancelled[d]
        /\ pc[d] = "sleep" \/ \E n \in DOMAIN tasks[d] : tasks[d][n].phase = "wait"

\* main receives SIGINT or SIGTERM
Signal ==
    /\ shutdown = "running"
    /\ shutdown' = "signalled"
    /\ signalledAt' = now
    /\ UNCHANGED <<xaiAPIKey, admitted, now, pc, reply, outcome, called, chunks, i, j,
                   pacing, wakeAt, tasks, sends, returned, sendFailed, typingFailed,
                   lateTyping, cancelled, cancelIgnored, fn, arg, res, openaiAPIKey, handler, notices, timely>>

\* main calls bot.Close(shutdownCtx), which calls session.Close() at once:
\* shutdownCtx is not looked at and no handler is waited for
Close ==
    /\ shutdown = "signalled"
    /\ shutdown' = "closing"
    /\ UNCHANGED <<xaiAPIKey, admitted, now, pc, reply, outcome, called, chunks, i, j,
                   pacing, wakeAt, tasks, sends, returned, sendFailed, typingFailed,
                   lateTyping, cancelled, cancelIgnored, signalledAt, fn, arg, res, openaiAPIKey, handler, notices, timely>>

\* session.Close() returns and main returns or calls os.Exit: the process and
\* all its goroutines end
Exit ==
    /\ shutdown = "closing"
    /\ shutdown' = "exited"
    /\ UNCHANGED <<xaiAPIKey, admitted, now, pc, reply, outcome, called, chunks, i, j,
                   pacing, wakeAt, tasks, sends, returned, sendFailed, typingFailed,
                   lateTyping, cancelled, cancelIgnored, signalledAt, fn, arg, res, openaiAPIKey, handler, notices, timely>>

\* time passes while the process lives; main takes no time but for its
\* session.Close() call, which returns within MaxLatency
AdvanceLifecycle ==
    /\ shutdown \in {"running", "closing"}
    /\ Pass
    /\ shutdown = "closing" => now' <= signalledAt + MaxLatency
    /\ cancelIgnored' = (cancelIgnored \/ Stalled)
    /\ UNCHANGED <<xaiAPIKey, admitted, pc, reply, outcome, called, chunks, i, j,
                   pacing, wakeAt, tasks, sends, returned, sendFailed, typingFailed,
                   lateTyping, cancelled, shutdown, signalledAt, fn, arg, res, openaiAPIKey, handler, notices, timely>>

\* one handler delivers a reply in a deployment without an xAI key, while the
\* owner of its ctx may cancel it and the process may be told to terminate
InitLifecycle ==
    InitCommon /\ timely = TRUE /\ NoCall /\ xaiAPIKey = FALSE /\ openaiAPIKey = FALSE /\ admitted = {1}

\* whether the process lives
Alive == shutdown # "exited"

NextLifecycle ==
    \/ Alive /\ \E d \in Deliveries : Start(d)
    \/ Alive /\ \E d \in Deliveries : Segment(d)
    \/ Alive /\ \E d \in Deliveries : BeginChunk(d)
    \/ Alive /\ \E d \in Deliveries : Wake(d)
    \/ Alive /\ \E d \in Deliveries : SendCall(d)
    \/ Alive /\ \E d \in Deliveries : SendReturn(d)
    \/ Alive /\ \E d \in Deliveries : Finish(d)
    \/ Alive /\ \E d \in Deliveries : \E n \in 1..Len(tasks[d]) : TaskStart(d, n)
    \/ Alive /\ \E d \in Deliveries : \E n \in 1..Len(tasks[d]) : TypingReturn(d, n)
    \/ Alive /\ \E d \in Deliveries : \E n \in 1..Len(tasks[d]) : TaskTimeout(d, n)
    \/ Alive /\ \E d \in Deliveries : \E n \in 1..Len(tasks[d]) : TaskTick(d, n)
    \/ AdvanceLifecycle
    \/ \E d \in Deliveries : Cancel(d)
    \/ Signal
    \/ Close
    \/ Exit

SpecLifecycle == InitLifecycle /\ [][NextLifecycle]_vars

(***************************************************************************)
(* Command handlers (internal/bot)                                         *)
(***************************************************************************)
\* the commands whose handler ends in sendLongResponse
Commands == {"ask", "opinion", "who_won", "user_opinion", "most", "image_opinion", "roast"}

\* what the history fetch of a handler gives: an error, no message, messages
FetchKinds == {"fail", "empty", "some"}

\* What a handler does before its provider call: the messages it sends, and
\* whether it goes on.  usable: the command has the arguments, mention,
\* reference or image it needs.
Preamble(command, provider, usable, fetch) ==
    CASE command = "ask" ->
            IF ~usable THEN [notices |-> <<"usage">>, proceed |-> FALSE]
            ELSE [notices |-> <<"thinking">>, proceed |-> TRUE]
      [] command \in {"opinion", "who_won"} ->
            IF fetch = "fail" THEN [notices |-> <<"status", "fetchError">>, proceed |-> FALSE]
            ELSE [notices |-> <<"status">>, proceed |-> TRUE]
      [] command = "user_opinion" ->
            IF ~usable THEN [notices |-> <<"usage">>, proceed |-> FALSE]
            ELSE IF fetch = "fail"
            THEN [notices |-> <<"status", "fetchError">>, proceed |-> FALSE]
            ELSE IF fetch = "empty"
            THEN [notices |-> <<"status", "nothingFound">>, proceed |-> FALSE]
            ELSE [notices |-> <<"status">>, proceed |-> TRUE]
      [] command = "most" ->
            IF ~usable THEN [notices |-> <<"usage">>, proceed |-> FALSE]
            ELSE IF fetch = "fail"
            THEN [notices |-> <<"status", "fetchError">>, proceed |-> FALSE]
            ELSE [notices |-> <<"status">>, proceed |-> TRUE]
      [] command = "image_opinion" ->
            IF ~usable THEN [notices |-> <<"usage">>, proceed |-> FALSE]
            ELSE IF provider = "grok" THEN [notices |-> <<"status">>, proceed |-> TRUE]
            ELSE [notices |-> <<"status", "thinking">>, proceed |-> TRUE]
      [] OTHER ->
            IF ~usable THEN [notices |-> <<"usage">>, proceed |-> FALSE]
            ELSE [notices |-> <<"status">>, proceed |-> TRUE]

\* the default provider a handler passes to extractProviderAndArgs:
\* handleAsk, handleOpinion and handleWhoWon pass ai.DefaultProvider, which
\* is ProviderGrok
DefaultProviderOf(command) ==
    IF command \in {"ask", "opinion", "who_won"} THEN "grok" ELSE "openai"

\* The provider a handler asks.  token: the provider word that leads the
\* arguments, in lower case, or "none".  handleRoast always asks openai, the
\* others what extractProviderAndArgs gives.
ProviderOf(command, token) ==
    IF command = "roast" THEN "openai"
    ELSE IF token \in {"grok", "openai"} THEN token
    ELSE DefaultProviderOf(command)

\* the provider the operation of a handler sends its request to: AskClient
\* sends to OpenAI for "openai" and to Grok otherwise, handleImageOpinion
\* calls ImageOpinionGrok for "grok" and ImageOpinionOpenAI otherwise
Endpoint(command, provider) ==
    IF command = "image_opinion"
    THEN IF provider = "grok" THEN "grok" ELSE "openai"
    ELSE IF provider = "openai" THEN "openai" ELSE "grok"

\* the provider operation a handler calls
Operation(command, provider, download, o) ==
    IF command = "image_opinion"
    THEN IF provider = "grok"
         THEN ImageOpinionGrok(xaiAPIKey, download, o)
         ELSE ImageOpinionOpenAI(openaiAPIKey, download, o)
    ELSE AskClient(openaiAPIKey, xaiAPIKey, provider, o)

\* messageHandler routes a command to its handler, which runs up to its provider call
HandlerBegin(d) ==
    /\ d \in admitted
    /\ handler[d].stage = "idle"
    /\ \E command \in Commands, token \in {"none", "grok", "openai"},
          usable \in BOOLEAN, fetch \in FetchKinds :
          LET provider == ProviderOf(command, token)
              p == Preamble(command, provider, usable, fetch)
          IN  /\ notices' = [notices EXCEPT ![d] = p.notices]
              /\ handler' = [handler EXCEPT ![d] =
                                [command |-> command, token |-> token, provider |-> provider,
                                 stage |-> IF p.proceed THEN "asking" ELSE "returned",
                                 failed |-> FALSE]]
    /\ UNCHANGED <<delivery, fn, arg, res, openaiAPIKey, timely>>

\* mutant: the reply is delivered whatever the error
AfterProviderIgnoringError(r) == "deliver"

\* what a handler does with the result of its provider call
AfterProvider(r) == IF r.err # "none" THEN "report" ELSE "deliver"

\* the provider call of a handler returns: on an error the handler sends
\* its error message and returns, otherwise it calls sendLongResponse
ProviderReturn(d) ==
    /\ handler[d].stage = "asking"
    /\ \E o \in ReplyOutcomes :
       \E download \in (IF handler[d].command = "image_opinion" THEN DownloadKinds ELSE {"ok"}) :
          LET r == Operation(handler[d].command, handler[d].provider, download, o)
          IN  IF r.panic
              THEN /\ handler' = [handler EXCEPT ![d].stage = "panicked"]
                   /\ UNCHANGED <<notices, pc, reply>>
              ELSE /\ handler' = [handler EXCEPT
                                    ![d].failed = (r.err # "none"),
                                    ![d].stage = IF AfterProvider(r) = "report"
                                                 THEN "returned" ELSE "delivering"]
                   /\ IF AfterProvider(r) = "report"
                      THEN /\ notices' = [notices EXCEPT ![d] = Append(@, "error")]
                           /\ UNCHANGED <<pc, reply>>
                      ELSE /\ pc' = [pc EXCEPT ![d] = "start"]
                           /\ reply' = [reply EXCEPT ![d] = r.content]
                           /\ UNCHANGED notices
    /\ UNCHANGED <<xaiAPIKey, admitted, now, outcome, called, chunks, i, j, pacing,
                   wakeAt, tasks, sends, returned, sendFailed, typingFailed, lateTyping,
                   cancelled, cancelIgnored, shutdown, signalledAt, fn, arg, res, openaiAPIKey, timely>>

\* one command is received, in a deployment with any of the two keys
InitHandlers ==
    InitCommon /\ timely = TRUE /\ NoCall /\ xaiAPIKey \in BOOLEAN /\ openaiAPIKey \in BOOLEAN /\ admitted = {1}

NextHandlers ==
    \/ \E d \in Deliveries : HandlerBegin(d)
    \/ \E d \in Deliveries : ProviderReturn(d)
    \/ \E d \in Deliveries : Segment(d)
    \/ \E d \in Deliveries : BeginChunk(d)
    \/ \E d \in Deliveries : Wake(d)
    \/ \E d \in Deliveries : SendCall(d)
    \/ \E d \in Deliveries : SendReturn(d)
    \/ \E d \in Deliveries : Finish(d)
    \/ \E d \in Deliveries : \E n \in 1..Len(tasks[d]) : TaskStart(d, n)
    \/ \E d \in Deliveries : \E n \in 1..Len(tasks[d]) : TypingReturn(d, n)
    \/ \E d \in Deliveries : \E n \in 1..Len(tasks[d]) : TaskTimeout(d, n)
    \/ \E d \in Deliveries : \E n \in 1..Len(tasks[d]) : TaskTick(d, n)
    \/ Advance

SpecHandlers == InitHandlers /\ [][NextHandlers]_vars

(***************************************************************************)
(* Functions applied on their own                                          *)
(***************************************************************************)
\* no handler runs; a caller has chosen a function and its argument
InitCalls ==
    /\ InitCommon /\ timely = TRUE /\ admitted = {}
    /\ res = Pending
    /\ \/ /\ xaiAPIKey = FALSE /\ openaiAPIKey = FALSE
          /\ \/ fn = "EnforceLength" /\ arg \in ChunkLists
             \/ fn = "fallbackMessageBreaks" /\ arg \in FallbackTexts
             \/ fn = "fallbackChunking" /\ arg \in FallbackTexts
             \/ fn = "parseMessageBreaks" /\ arg \in ParseInputs
             \/ fn = "extractProviderAndArgs" /\ arg \in ExtractInputs
             \/ fn = "Validate" /\ arg \in Configs
             \/ fn = "fallbacks" /\ arg \in FallbackTexts
             \/ fn = "getTopActiveUsers" /\ arg \in TopInputs
       \/ /\ xaiAPIKey \in BOOLEAN /\ openaiAPIKey \in BOOLEAN
          /\ \/ fn = "AskClient" /\ arg \in AskInputs
             \/ fn = "ImageOpinionOpenAI" /\ arg \in ImageInputs
             \/ fn = "ImageOpinionGrok" /\ arg \in ImageInputs

\* the loop of sendLongResponse is applied to a chunk list
ApplyEnforceLength ==
    /\ fn = "EnforceLength" /\ ~res.done
    /\ res' = Done(EnforceLength(arg))
    /\ UNCHANGED <<delivery, fn, arg, openaiAPIKey, handler, notices, timely>>

\* the loop is applied once more, to the messages it has made
ApplyEnforceLengthAgain ==
    /\ fn = "EnforceLength" /\ res.done
    /\ fn' = "EnforceLengthAgain"
    /\ arg' = res.value
    /\ res' = Done(EnforceLength(res.value))
    /\ UNCHANGED <<delivery, openaiAPIKey, handler, notices, timely>>

ApplyFallbackMessageBreaks ==
    /\ fn = "fallbackMessageBreaks" /\ ~res.done
    /\ res' = Done(fallbackMessageBreaks(arg))
    /\ UNCHANGED <<delivery, fn, arg, openaiAPIKey, handler, notices, timely>>

ApplyFallbackChunking ==
    /\ fn = "fallbackChunking" /\ ~res.done
    /\ res' = Done(fallbackChunking(arg))
    /\ UNCHANGED <<delivery, fn, arg, openaiAPIKey, handler, notices, timely>>

ApplyParseMessageBreaks ==
    /\ fn = "parseMessageBreaks" /\ ~res.done
    /\ res' = Done(parseMessageBreaks(arg.response, arg.originalMessage))
    /\ UNCHANGED <<delivery, fn, arg, openaiAPIKey, handler, notices, timely>>

ApplyAskClient ==
    /\ fn = "AskClient" /\ ~res.done
    /\ res' = Done(AskClient(openaiAPIKey, xaiAPIKey, arg.provider, arg.outcome))
    /\ UNCHANGED <<delivery, fn, arg, openaiAPIKey, handler, notices, timely>>

ApplyImageOpinionOpenAI ==
    /\ fn = "ImageOpinionOpenAI" /\ ~res.done
    /\ res' = Done(ImageOpinionOpenAI(openaiAPIKey, arg.download, arg.outcome))
    /\ UNCHANGED <<delivery, fn, arg, openaiAPIKey, handler, notices, timely>>

ApplyImageOpinionGrok ==
    /\ fn = "ImageOpinionGrok" /\ ~res.done
    /\ res' = Done(ImageOpinionGrok(xaiAPIKey, arg.download, arg.outcome))
    /\ UNCHANGED <<delivery, fn, arg, openaiAPIKey, handler, notices, timely>>

ApplyExtractProviderAndArgs ==
    /\ fn = "extractProviderAndArgs" /\ ~res.done
    /\ res' = Done(extractProviderAndArgs(arg.args, arg.defaultProvider))
    /\ UNCHANGED <<delivery, fn, arg, openaiAPIKey, handler, notices, timely>>

ApplyValidate ==
    /\ fn = "Validate" /\ ~res.done
    /\ res' = Done(Validate(arg))
    /\ UNCHANGED <<delivery, fn, arg, openaiAPIKey, handler, notices, timely>>

ApplyGetTopActiveUsers ==
    /\ fn = "getTopActiveUsers" /\ ~res.done
    /\ \E counts \in RangeOrders(arg.userCounts) :
          res' = Done(getTopActiveUsers(counts, arg.topN))
    /\ UNCHANGED <<delivery, fn, arg, openaiAPIKey, handler, notices, timely>>

\* both fallback splitters are applied to one text
ApplyFallbacks ==
    /\ fn = "fallbacks" /\ ~res.done
    /\ res' = Done([bot |-> fallbackChunking(arg), client |-> fallbackMessageBreaks(arg)])
    /\ UNCHANGED <<delivery, fn, arg, openaiAPIKey, handler, notices, timely>>

NextCalls ==
    \/ ApplyFallbacks
    \/ ApplyGetTopActiveUsers
    \/ ApplyValidate
    \/ ApplyExtractProviderAndArgs
    \/ ApplyAskClient
    \/ ApplyImageOpinionOpenAI
    \/ ApplyImageOpinionGrok
    \/ ApplyEnforceLength
    \/ ApplyEnforceLengthAgain
    \/ ApplyFallbackMessageBreaks
    \/ ApplyFallbackChunking
    \/ ApplyParseMessageBreaks

SpecCalls == InitCalls /\ [][NextCalls]_vars

(***************************************************************************)
(* Properties                                                              *)
(***************************************************************************)
Started(d) == pc[d] \notin {"idle", "start"}

Min(a, b) == IF a < b THEN a ELSE b

\* the consecutive slices of at most MaxDiscordMessageLength of a chunk
SlicesOf(chunk) ==
    LET L == StrLen(chunk)
        count == (L + MaxDiscordMessageLength - 1) \div MaxDiscordMessageLength
    IN  [k \in 1..count |->
            Slice(chunk, (k - 1) * MaxDiscordMessageLength, Min(k * MaxDiscordMessageLength, L))]

\* the messages a chunk list is to be delivered as: each chunk itself when it
\* fits, its slices in offset order otherwise
RECURSIVE PlanOf(_)
PlanOf(list) ==
    IF list = <<>> THEN <<>>
    ELSE (IF StrLen(list[1]) <= MaxDiscordMessageLength THEN <<list[1]>> ELSE SlicesOf(list[1]))
         \o PlanOf(Tail(list))

IsPrefix(s, t) == Len(s) <= Len(t) /\ s = SubSeq(t, 1, Len(s))

\* a string without its whitespace
RECURSIVE Squeeze(_)
Squeeze(s) ==
    IF s = <<>> THEN <<>>
    ELSE IF s[1][1] \in Whitespace THEN Squeeze(Tail(s))
    ELSE Cat(<<s[1]>>, Squeeze(Tail(s)))

\* C1: when a delivery is done, the messages it passed to ChannelMessageSend,
\* concatenated in send order, are the Reply up to whitespace.
C1_Lossless ==
    \A d \in Deliveries :
        pc[d] = "done" => Squeeze(Concat(Messages(SentBy(d)))) = Squeeze(reply[d])

\* C2: every message passed to ChannelMessageSend is at most 2000 long.
C2_MaxLength ==
    \A d \in Deliveries : \A k \in 1..Len(SentBy(d)) : StrLen(SentBy(d)[k].msg) <= 2000

\* a delivery whose chunk list held a chunk longer than 2000 has sent its messages
C2_Witness ==
    \E d \in Deliveries :
        /\ pc[d] = "done"
        /\ \E k \in 1..Len(chunks[d]) : StrLen(chunks[d][k]) > 2000
        /\ Len(SentBy(d)) >= 2

PiecesOf(d) == StringsSplit(outcome[d].content, "BRK", 1)

\* the pieces that are not empty after trimming and at most 2000 long
Usable(d) ==
    {k \in DOMAIN PiecesOf(d) :
        TrimSpace(PiecesOf(d)[k]) # <<>> /\ StrLen(TrimSpace(PiecesOf(d)[k])) <= 2000}

\* C4 as stated: every piece of the provider's response that is not empty after
\* trimming is a chunk of the delivery, and every chunk is sent.
C4_NothingDropped ==
    \A d \in Deliveries :
        pc[d] = "done" /\ outcome[d].kind = "ok" =>
            /\ Messages(SentBy(d)) = PlanOf(chunks[d])
            /\ \A k \in DOMAIN PiecesOf(d) :
                  TrimSpace(PiecesOf(d)[k]) # <<>> =>
                      \E m \in DOMAIN chunks[d] : chunks[d][m] = TrimSpace(PiecesOf(d)[k])

\* C4 as amended: every chunk of the segmentation result is sent; of the
\* provider's pieces, those not empty after trimming and at most 2000 long are
\* each sent as a message when there are at least two of them, and otherwise
\* the messages are those of the fallback splitter's chunks of the Reply.
C4_UsablePiecesSent ==
    \A d \in Deliveries :
        pc[d] = "done" =>
            /\ Messages(SentBy(d)) = PlanOf(chunks[d])
            /\ outcome[d].kind = "ok" /\ Cardinality(Usable(d)) >= 2 =>
                  /\ Len(SentBy(d)) = Cardinality(Usable(d))
                  /\ \A k \in Usable(d) :
                        \E m \in DOMAIN SentBy(d) : SentBy(d)[m].msg = TrimSpace(PiecesOf(d)[k])
            /\ outcome[d].kind = "ok" /\ Cardinality(Usable(d)) <= 1 =>
                  Messages(SentBy(d)) = PlanOf(fallbackMessageBreaks(reply[d]))

\* a response with an oversized piece and two usable ones has been delivered
C4_Witness ==
    \E d \in Deliveries :
        /\ pc[d] = "done" /\ outcome[d].kind = "ok"
        /\ Cardinality(Usable(d)) = 2
        /\ \E k \in DOMAIN PiecesOf(d) : StrLen(TrimSpace(PiecesOf(d)[k])) > 2000

\* C5: segmentation never fails outward: no handler panics, and for a Reply
\* longer than 500 every failed provider outcome (a missing key included)
\* leaves the fallback splitter's non-empty chunk list.
C5_NeverFailsOutward ==
    \A d \in Deliveries :
        /\ pc[d] # "panicked"
        /\ Started(d) /\ StrLen(reply[d]) > 500 /\ outcome[d].kind \in FailureKinds \cup {"none"}
              => chunks[d] = fallbackMessageBreaks(reply[d]) /\ chunks[d] # <<>>

\* C6: a delivery never aborts: it ends only as done, and then it has made
\* exactly one send for every message of its final chunk list, in order,
\* whichever sends failed.
C6_BestEffort ==
    \A d \in Deliveries :
        /\ pc[d] \in {"idle", "start", "loop", "sleep", "send", "sending", "done", "panicked"}
        /\ pc[d] = "done" =>
              /\ Messages(SentBy(d)) = PlanOf(chunks[d])
              /\ returned[d] = Len(PlanOf(chunks[d]))

\* the last message is being sent after an earlier send has failed
C6_Witness ==
    \E d \in Deliveries :
        /\ sendFailed /\ pc[d] = "sending"
        /\ Len(SentBy(d)) >= 2 /\ Len(SentBy(d)) = Len(PlanOf(chunks[d]))

\* C7: a Reply of at most 500 comes back as the one-element list of itself,
\* and no provider request is made, with or without an API key.
C7_ShortBypass ==
    \A d \in Deliveries :
        Started(d) /\ StrLen(reply[d]) <= 500 =>
            chunks[d] = <<reply[d]>> /\ ~called[d] /\ pc[d] # "panicked"

\* a Reply of exactly 500 has been segmented with the xAI key configured
C7_Witness ==
    \E d \in Deliveries :
        Started(d) /\ StrLen(reply[d]) = 500 /\ xaiAPIKey /\ chunks[d] = <<reply[d]>>

\* clamp(5000ms + length * 50ms / 80, 5000ms, 8000ms), in microseconds
ClaimedDelay(length) ==
    LET raw == 5000000 + (length * 50000) \div 80
    IN  IF raw < 5000000 THEN 5000000 ELSE IF raw > 8000000 THEN 8000000 ELSE raw

\* C8: the first message of a delivery is sent with no delay and no typing
\* task, and every later one with a typing task and only once the delay
\* clamp(5000ms + length * 50ms / 80, 5000ms, 8000ms) has passed.
C8_Pacing ==
    \A d \in Deliveries :
        /\ \A n \in DOMAIN tasks[d] : tasks[d][n].k > 1
        /\ \A k \in DOMAIN SentBy(d) :
              LET m == SentBy(d)[k]
              IN  IF k = 1
                  THEN m.delay = 0 /\ ~m.typing
                  ELSE /\ m.typing
                       /\ m.delay = ClaimedDelay(StrLen(m.msg))
                       /\ 5000000 <= m.delay /\ m.delay <= 8000000
                       /\ m.at >= m.begun + m.delay
                       /\ \E n \in DOMAIN tasks[d] : tasks[d][n].k = k

\* the second slice of an oversized first chunk has been sent after its delay
C8_Witness ==
    \E d \in Deliveries :
        /\ Len(SentBy(d)) >= 2
        /\ StrLen(chunks[d][1]) > 2000
        /\ SentBy(d)[2].delay > 5000000

\* C9: no typing call is issued for a message whose delay has elapsed or
\* that has been sent, and when a typing task starts the tasks of the
\* earlier messages are no longer running.
C9_TypingStopsInTime ==
    /\ ~lateTyping
    /\ \A d \in Deliveries : \A n \in DOMAIN tasks[d] : \A m \in DOMAIN tasks[d] :
          n < m => tasks[d][n].phase = "done"

\* C10: a task returns at once when a typing call of it fails, and a delivery
\* in which a typing call failed still sends every message, each after its delay.
C10_TypingFailureIsLocal ==
    /\ \A d \in Deliveries : \A n \in DOMAIN tasks[d] : ~tasks[d][n].failed
    /\ \A d \in Deliveries :
          typingFailed /\ pc[d] = "done" =>
              /\ Len(SentBy(d)) = Len(PlanOf(chunks[d]))
              /\ \A k \in DOMAIN SentBy(d) : SentBy(d)[k].at >= SentBy(d)[k].begun + SentBy(d)[k].delay

\* a delivery of several messages is done although a typing call failed
C10_Witness ==
    \E d \in Deliveries : typingFailed /\ pc[d] = "done" /\ Len(SentBy(d)) >= 2

\* C11: a cancelled ctx ends the pacing delay and the typing task at once: no
\* time passes while a delivery whose ctx is cancelled is still in its pacing
\* sleep or still has a typing task waiting in its select.
C11_DelayCancellable == ~cancelIgnored

\* C12: once main has gone on to close the session or has exited, no delivery
\* is in flight unless the grace period since the signal has expired.
C12_GracePeriod ==
    shutdown \in {"closing", "exited"} =>
        \/ \A d \in Deliveries : ~InFlight(d)
        \/ now >= signalledAt + ShutdownTimeout

\* C13: a delivery of the empty Reply makes no ChannelMessageSend call.
C13_EmptyReplySendsNothing ==
    \A d \in Deliveries : Started(d) /\ reply[d] = <<>> => SentBy(d) = <<>>

\* whether a function applied on its own has returned
Applied(f) == fn = f /\ res.done

\* C14: the length enforcer passes a chunk of at most 2000 through unchanged
\* and replaces a longer chunk of length L by ceil(L/2000) consecutive
\* slices, all of length 2000 but possibly the last, whose concatenation is
\* the chunk; the concatenation of the whole sequence is unchanged.
C14_Enforcer ==
    Applied("EnforceLength") =>
        /\ res.value = PlanOf(arg)
        /\ Concat(res.value) = Concat(arg)
        /\ \A k \in DOMAIN arg :
              LET L == StrLen(arg[k])
                  out == EnforceLength(<<arg[k]>>)
              IN  IF L <= 2000
                  THEN out = <<arg[k]>>
                  ELSE /\ Len(out) = (L + 1999) \div 2000
                       /\ \A n \in 1..(Len(out) - 1) : StrLen(out[n]) = 2000
                       /\ StrLen(out[Len(out)]) = L - 2000 * (Len(out) - 1)
                       /\ Concat(out) = arg[k]

\* a chunk of length 2001 has been made into slices of 2000 and 1
C14_Witness ==
    /\ Applied("EnforceLength")
    /\ arg = << <<<<"a", 2000>>, <<"b", 1>>>> >>
    /\ res.value = <<Rep("a", 2000), Rep("b", 1)>>

\* C15: the length enforcer returns a sequence whose elements are all at
\* most 2000 long as it is, and applied to its own result it returns that result.
C15_Idempotent ==
    /\ Applied("EnforceLength") /\ (\A k \in DOMAIN arg : StrLen(arg[k]) <= 2000)
          => res.value = arg
    /\ Applied("EnforceLengthAgain") => res.value = arg

\* the enforcer has been applied again to slices it made, one of them full
C15_Witness ==
    /\ Applied("EnforceLengthAgain")
    /\ Len(arg) >= 3
    /\ \E k \in DOMAIN arg : StrLen(arg[k]) = 2000

\* whether a text holds the paragraph separator
HasBlankLine(text) == \E k \in DOMAIN text : text[k][1] = "nl" /\ text[k][2] >= 2

\* C16: either fallback splitter returns a text without a blank line as the
\* single element of its result, untrimmed.
C16_NoSeparator ==
    (Applied("fallbackMessageBreaks") \/ Applied("fallbackChunking")) /\ ~HasBlankLine(arg)
        => res.value = <<arg>>

\* a text with whitespace at both ends and no blank line has been returned as it is
C16_Witness ==
    /\ Applied("fallbackMessageBreaks")
    /\ arg = <<<<"sp", 1>>, <<"a", 1>>, <<"sp", 1>>>>
    /\ res.value = <<arg>>

\* the paragraphs of the text a fallback splitter was applied to, if it is a
\* text of three paragraphs
TriplesOf(text) == {t \in Triples : ThreeParagraphs(t) = text}

JoinTrimmed(ps) == Join([k \in DOMAIN ps |-> TrimSpace(ps[k])], Rep("nl", 2))

\* the ways to make two or three chunks of three paragraphs in their order
Groupings(t) ==
    {<<TrimSpace(t[1]), TrimSpace(t[2]), TrimSpace(t[3])>>,
     <<JoinTrimmed(<<t[1], t[2]>>), TrimSpace(t[3])>>,
     <<TrimSpace(t[1]), JoinTrimmed(<<t[2], t[3]>>)>>}

\* at least two chunks, in paragraph order, each at most 800 long unless it
\* is one paragraph
WellChunked(t, result) ==
    /\ result \in Groupings(t)
    /\ \A k \in DOMAIN result :
          StrLen(result[k]) <= 800 \/ \E n \in 1..3 : result[k] = TrimSpace(t[n])

\* C17 as stated: of a text of three paragraphs, none blank, whose lengths
\* add up to more than 1600, the fallback splitter makes at least two chunks,
\* in paragraph order, each at most 800 long unless it is one paragraph.
C17_ThreeParagraphs ==
    Applied("fallbackMessageBreaks") =>
        \A t \in TriplesOf(arg) :
            /\ \A n \in 1..3 : TrimSpace(t[n]) # <<>>
            /\ StrLen(t[1]) + StrLen(t[2]) + StrLen(t[3]) > 1600
            => WellChunked(t, res.value)

\* C17 as amended: the same of three paragraphs that are not blank and whose
\* lengths after trimming add up to more than 1600.
C17_ThreeTrimmedParagraphs ==
    Applied("fallbackMessageBreaks") =>
        \A t \in TriplesOf(arg) :
            /\ \A n \in 1..3 : TrimSpace(t[n]) # <<>>
            /\ StrLen(TrimSpace(t[1])) + StrLen(TrimSpace(t[2])) + StrLen(TrimSpace(t[3])) > 1600
            => WellChunked(t, res.value)

\* paragraphs of 399, 401 and 1599 have been made into three chunks
C17_Witness ==
    /\ Applied("fallbackMessageBreaks")
    /\ arg = ThreeParagraphs(<<Rep("a", 399), Rep("b", 401), Rep("a", 1599)>>)
    /\ res.value = <<Rep("a", 399), Rep("b", 401), Rep("a", 1599)>>

\* whether a trimmed piece is neither empty nor longer than 2000
Usable2000(piece) == piece # <<>> /\ StrLen(piece) <= 2000

\* the pieces of a provider response between its delimiters, trimmed, without
\* the empty and the oversized ones
UsablePieces(response) ==
    LET pieces == StringsSplit(response, "BRK", 1)
    IN  SelectSeq([k \in DOMAIN pieces |-> TrimSpace(pieces[k])], Usable2000)

\* C18: parseMessageBreaks returns the trimmed pieces of the response that
\* are neither empty nor longer than 2000, in order, when there are at least
\* two of them, and the fallback split of the original Reply otherwise;
\* "A<<<BREAK>>>B<<<BREAK>>>" gives ["A", "B"].
C18_Parse ==
    Applied("parseMessageBreaks") =>
        /\ res.value = IF Len(UsablePieces(arg.response)) >= 2
                       THEN UsablePieces(arg.response)
                       ELSE fallbackMessageBreaks(arg.originalMessage)
        /\ arg.response = <<<<"a", 1>>, <<"BRK", 1>>, <<"b", 1>>, <<"BRK", 1>>>>
              => res.value = <<Rep("a", 1), Rep("b", 1)>>

\* a response with one usable piece between empty ones has been answered
\* with the fallback split of a Reply of two paragraphs
C18_Witness ==
    /\ Applied("parseMessageBreaks")
    /\ arg.response = <<<<"BRK", 1>>, <<"b", 2000>>, <<"BRK", 1>>, <<"sp", 1>>>>
    /\ arg.originalMessage = <<<<"a", 500>>, <<"nl", 2>>, <<"a", 500>>>>
    /\ res.value = <<Rep("a", 500), Rep("a", 500)>>

\* whether the API key of the provider a provider operation is asked for is set
KeyConfigured ==
    IF fn = "AskClient"
    THEN IF arg.provider = "openai" THEN openaiAPIKey ELSE xaiAPIKey
    ELSE IF fn = "ImageOpinionOpenAI" THEN openaiAPIKey ELSE xaiAPIKey

\* C20: a provider operation whose provider has no API key returns a
\* validation error and has made no network call, neither a provider
\* request nor an image download.
C20_KeyCheckedFirst ==
    (Applied("AskClient") \/ Applied("ImageOpinionOpenAI") \/ Applied("ImageOpinionGrok"))
        /\ ~KeyConfigured
        => res.value.err = "validation" /\ res.value.network = <<>>

\* how many of the messages a handler has sent itself are of a kind
CountOf(kind, d) == Cardinality({k \in DOMAIN notices[d] : notices[d][k] = kind})

\* C19: a handler whose provider operation returned an error has sent one
\* error message, its last message, and has returned; it has not called
\* sendLongResponse and nothing of a reply is sent.
C19_ErrorAborts ==
    \A d \in Deliveries :
        handler[d].failed =>
            /\ handler[d].stage = "returned"
            /\ CountOf("error", d) = 1
            /\ notices[d][Len(notices[d])] = "error"
            /\ pc[d] = "idle"
            /\ SentBy(d) = <<>>

\* the image analysis of an !image_opinion command has returned an error
C19_Witness ==
    \E d \in Deliveries :
        /\ handler[d].failed
        /\ handler[d].command = "image_opinion"
        /\ handler[d].stage = "returned"

\* whether two words are the same up to the case of their letters
SameIgnoringCase(u, v) ==
    /\ Len(u) = Len(v)
    /\ \A k \in 1..Len(u) :
        u[k] = v[k] \/ <<u[k], v[k]>> \in CasePairs \/ <<v[k], u[k]>> \in CasePairs

\* C21: when the first argument is "grok" or "openai" up to case,
\* extractProviderAndArgs returns that word in lower case as the provider
\* and the arguments that follow it; in every other case (no argument, or a
\* provider word that is not the first) it returns the default provider and
\* the arguments unchanged.
C21_ExtractProvider ==
    Applied("extractProviderAndArgs") =>
        LET args == arg.args
            provider == res.value.provider
            rest == res.value.args
        IN  IF Len(args) > 0 /\ SameIgnoringCase(args[1], ProviderGrok)
            THEN provider = ProviderGrok /\ rest = SubSeq(args, 2, Len(args))
            ELSE IF Len(args) > 0 /\ SameIgnoringCase(args[1], ProviderOpenAI)
            THEN provider = ProviderOpenAI /\ rest = SubSeq(args, 2, Len(args))
            ELSE provider = arg.defaultProvider /\ rest = args

\* "GROK ask" with the default "openai" gives the provider "grok" and "ask"
C21_Witness ==
    /\ Applied("extractProviderAndArgs")
    /\ arg.args = <<<<"G", "R", "O", "K">>, <<"a", "s", "k">>>>
    /\ arg.defaultProvider = ProviderOpenAI
    /\ res.value = [provider |-> ProviderGrok, args |-> <<<<"a", "s", "k">>>>]

\* C22: a language-model command without a leading provider word sends its
\* provider request to OpenAI.
C22_DefaultIsOpenAI ==
    \A d \in Deliveries :
        handler[d].stage = "asking" /\ handler[d].token = "none"
            => Endpoint(handler[d].command, handler[d].provider) = "openai"

\* the items Config.Validate checks, in the order of the claim
ConfigItems == <<"DISCORD_TOKEN", "XAI_API_KEY or OPENAI_API_KEY", "DISCORD_POLITICS_CHANNEL">>

\* the items a Config fails
FailedItems(c) ==
    {k \in 1..3 :
        \/ k = 1 /\ c.DiscordToken = ""
        \/ k = 2 /\ ~(c.XAIAPIKey # "" \/ c.OpenAIAPIKey # "")
        \/ k = 3 /\ c.DiscordPoliticsChannel = ""}

\* C23: Config.Validate returns nil exactly when DiscordToken is non-empty,
\* one of XAIAPIKey and OpenAIAPIKey is non-empty and DiscordPoliticsChannel
\* is non-empty; otherwise it returns a ConfigError that names the first
\* failing item in the order DISCORD_TOKEN, "XAI_API_KEY or OPENAI_API_KEY",
\* DISCORD_POLITICS_CHANNEL; the Config is as it was.
C23_Validate ==
    Applied("Validate") =>
        /\ res.value.err = "nil" <=> FailedItems(arg) = {}
        /\ FailedItems(arg) # {} =>
              \E k \in FailedItems(arg) :
                  /\ \A other \in FailedItems(arg) : k <= other
                  /\ res.value.err = ConfigItems[k]
        /\ res.value.config = arg

\* a Config with a token and only the OpenAI key, but no channel
C23_Witness ==
    /\ Applied("Validate")
    /\ arg = [DiscordToken |-> "x", DiscordPoliticsChannel |-> "",
              XAIAPIKey |-> "", OpenAIAPIKey |-> "x"]
    /\ res.value.err = "DISCORD_POLITICS_CHANNEL"

\* C24: getTopActiveUsers returns min(max(topN, 0), number of users) names
\* of the map, none twice, in non-increasing order of their counts, and no
\* user left out has a greater count than a user returned; the result is
\* empty for topN = 0 and for the empty map.
C24_TopActiveUsers ==
    Applied("getTopActiveUsers") =>
        LET userCounts == arg.userCounts
            names == res.value
            chosen == {names[k] : k \in 1..Len(names)}
            wanted == IF arg.topN > 0 THEN arg.topN ELSE 0
        IN  /\ Len(names) = Min(wanted, Cardinality(DOMAIN userCounts))
            /\ chosen \subseteq DOMAIN userCounts
            /\ \A k, l \in 1..Len(names) : names[k] = names[l] => k = l
            /\ \A k, l \in 1..Len(names) :
                  k < l => userCounts[names[k]] >= userCounts[names[l]]
            /\ \A out \in DOMAIN userCounts \ chosen :
                  \A in \in chosen : userCounts[out] <= userCounts[in]
            /\ arg.topN = 0 \/ DOMAIN userCounts = {} => names = <<>>

\* the two most active of three users, the two others having the same count
C24_Witness ==
    /\ Applied("getTopActiveUsers")
    /\ arg.topN = 2
    /\ DOMAIN arg.userCounts = UserNames
    /\ arg.userCounts["alice"] = 1 /\ arg.userCounts["bob"] = 2 /\ arg.userCounts["carol"] = 1
    /\ res.value = <<"bob", "carol">>

\* the paragraphs of a text, trimmed, without the blank ones
TrimmedParagraphs(text) ==
    LET pieces == StringsSplit(text, "nl", 2)
        trimmed == [k \in DOMAIN pieces |-> TrimSpace(pieces[k])]
    IN  SelectSeq(trimmed, LAMBDA p : p # <<>>)

\* the lists of chunks that are, in order, the blank-line joins of
\* consecutive runs that make up a list of paragraphs
RECURSIVE RunJoins(_)
RunJoins(ps) ==
    IF ps = <<>> THEN {<<>>}
    ELSE UNION {{<<Join(SubSeq(ps, 1, k), Rep("nl", 2))>> \o rest :
                    rest \in RunJoins(SubSeq(ps, k + 1, Len(ps)))} : k \in 1..Len(ps)}

\* C25: when the fallback splitter returns two chunks or more, its chunks
\* are, in order, the blank-line joins of consecutive runs that make up the
\* trimmed non-blank paragraphs of the text: no paragraph is left out, none
\* is cut; every chunk is non-empty and trimmed.
C25_ChunksPartitionParagraphs ==
    Applied("fallbackMessageBreaks") /\ Len(res.value) >= 2 =>
        /\ res.value \in RunJoins(TrimmedParagraphs(arg))
        /\ \A k \in DOMAIN res.value :
              res.value[k] # <<>> /\ TrimSpace(res.value[k]) = res.value[k]

\* of four paragraphs the first two and the last two have been joined
C25_Witness ==
    /\ Applied("fallbackMessageBreaks")
    /\ arg = Join(<<Rep("a", 399), Rep("b", 399), Rep("a", 1), Rep("b", 1)>>, Rep("nl", 2))
    /\ res.value = <<Join(<<Rep("a", 399), Rep("b", 399)>>, Rep("nl", 2)),
                     Join(<<Rep("a", 1), Rep("b", 1)>>, Rep("nl", 2))>>

\* C26: the segmentation request of a Reply longer than 500 is made with
\* the xAI key and with nothing else, whichever provider the handler asked
\* for the Reply: it is made when the key is set, and when the key is not
\* set no request is made and the chunks are those of the fallback splitter.
C26_SegmentationByGrok ==
    \A d \in Deliveries :
        Started(d) /\ StrLen(reply[d]) > ShortMessageThreshold =>
            /\ called[d] <=> xaiAPIKey
            /\ ~xaiAPIKey => chunks[d] = fallbackMessageBreaks(reply[d])

\* a Reply of two paragraphs that OpenAI gave in a deployment without the
\* xAI key has been segmented into its paragraphs without a request
C26_Witness ==
    \E d \in Deliveries :
        /\ handler[d].provider = "openai" /\ handler[d].stage = "delivering"
        /\ ~xaiAPIKey /\ openaiAPIKey
        /\ Started(d) /\ ~called[d]
        /\ reply[d] = <<<<"a", 500>>, <<"nl", 2>>, <<"b", 500>>>>
        /\ chunks[d] = <<Rep("a", 500), Rep("b", 500)>>

\* C27: the send of a message does not wait for the typing task that was
\* started for it.  Whenever the delay of sendChunkWithDelay has elapsed, its
\* return from time.Sleep is enabled, whether the task has not started, has
\* a ChannelTyping call in flight or is never served; and every message was
\* sent at the time its delay ended.
C27_SendNeverWaitsForTyping ==
    \A d \in Deliveries :
        /\ pc[d] = "sleep" /\ now >= wakeAt[d] => ENABLED Wake(d)
        /\ \A k \in DOMAIN sends[d] : sends[d][k].at = sends[d][k].begun + sends[d][k].delay

\* three messages have been sent while the typing task of the second has
\* not started and that of the third has its first call in flight
C27_Witness ==
    \E d \in Deliveries :
        /\ Len(sends[d]) = 3
        /\ Len(tasks[d]) = 2
        /\ tasks[d][1].phase = "spawned"
        /\ tasks[d][2].phase = "call1"
        /\ now < Horizon

\* whether every sendLongResponse invocation has returned, or has ended in
\* a panic of its segmentation call, after one ChannelMessageSend call per
\* message, each after a delay of at most 8000 ms, and every typing task
\* that was started has returned
Terminated ==
    \A d \in Deliveries :
        /\ \/ pc[d] \in {"idle", "panicked"}
           \/ /\ pc[d] = "done"
              /\ Messages(sends[d]) = EnforceLength(chunks[d])
              /\ \A k \in DOMAIN sends[d] : sends[d][k].delay <= MaxMessageDelay
        /\ \A n \in DOMAIN tasks[d] : tasks[d][n].phase = "done"

\* C28: when the gateway calls return and the timers fire, sendLongResponse
\* ends after finitely many sends, one per message, each after a delay of at
\* most 8000 ms, and every typing task it started ends.
C28_Terminates == (\E d \in Deliveries : pc[d] = "start") ~> Terminated

\* a delivery of four messages has returned and its three typing tasks have ended
C28_Witness ==
    \E d \in Deliveries :
        /\ pc[d] = "done"
        /\ Len(sends[d]) = 4
        /\ Len(tasks[d]) = 3
        /\ Terminated

\* C29: every delay that is applied lies between 5000 ms and 6250 ms; it is
\* the unclamped 5000 ms + length * 50 ms / 80, so the clamp to 8000 ms does
\* not bind; and it is shorter than the refresh interval of the typing task.
C29_DelayRange ==
    \A d \in Deliveries :
        \A k \in DOMAIN sends[d] :
            sends[d][k].typing =>
                /\ 5000000 <= sends[d][k].delay /\ sends[d][k].delay <= 6250000
                /\ sends[d][k].delay
                      = MinMessageDelay
                        + (StrLen(sends[d][k].msg) * TypingSpeed) \div TypingSpeedDivisor
                /\ sends[d][k].delay < MaxMessageDelay
                /\ sends[d][k].delay < TypingRefreshInterval

\* a message of 2000 bytes has been sent after 6250 ms, one of a single
\* byte after 5000.625 ms
C29_Witness ==
    \E d \in Deliveries :
        /\ \E k \in DOMAIN sends[d] :
              StrLen(sends[d][k].msg) = 2000 /\ sends[d][k].delay = 6250000
        /\ \E k \in DOMAIN sends[d] :
              StrLen(sends[d][k].msg) = 1 /\ sends[d][k].delay = 5000625

\* C30: Bot.fallbackChunking and AIClient.fallbackMessageBreaks return the
\* same list of chunks for every text.
C30_FallbacksAgree ==
    Applied("fallbacks") => res.value.bot = res.value.client

\* both have joined paragraphs of 399 and 399 and left one of 1599 alone
C30_Witness ==
    /\ Applied("fallbacks")
    /\ arg = ThreeParagraphs(<<Rep("a", 399), Rep("b", 399), Rep("a", 1599)>>)
    /\ res.value.bot = <<Join(<<Rep("a", 399), Rep("b", 399)>>, Rep("nl", 2)), Rep("a", 1599)>>
    /\ res.value.client = res.value.bot

=============================================================================
